---- MODULE Spec2Model ----
(***************************************************************************)
(* Glacier (glacier.py): a host-provisioning CLI.  The model covers the   *)
(* operations that write a site's nginx configuration document and the    *)
(* site directory it serves: create, rebuild, setup_ssl,                  *)
(* create_staging_environment, promote_staging_to_production and the      *)
(* main loop that dispatches them on a single thread; the backup         *)
(* archives (backup_website, restore_website), the server registry        *)
(* servers.yml (add_server, remove_server) and docker_compose with        *)
(* docker-compose.yml (setup and the setup_* menu actions).               *)
(***************************************************************************)
EXTENDS Integers, Sequences, FiniteSets, TLC

VARIABLES
    running,         \* main, 688-804: the loop has not exited or died on an exception
    action,          \* main, 689-720: answers['action'], "" before the first prompt
    nginx,           \* 267-269: nginx/<domain>.conf, domain -> document (<<>> = no file)
    sites,           \* 272-280: sites/<domain>, domain -> [exists, files]
    certs,           \* 652, 664: certs/ (mounted at /etc/letsencrypt), the domains
                     \* that hold certificate files
    ssl_run,         \* 303-305: what setup_ssl did during the last menu action
                     \* (NoRun: it was not called)
    last_conf_call,  \* 223: arguments of the most recent create_nginx_conf call
    backups,         \* 349-356: backups/<domain>_<timestamp>.tar.gz, file -> archive
    backup_file,     \* main, 745: the backup file given to the last restore_website
    backed_up,       \* per backup file, the site directory as it was when the last
                     \* backup_website that wrote the file read it
    servers_yml,     \* 538, 550-551, 563-564: servers.yml, [exists, text]
    console,         \* 553, 565-569: the last line add_server / remove_server printed
    docker_compose,  \* 654-670: docker_compose['services'], a dict
    compose_yml,     \* 679-680, 407-408, 484-485, 521-522: docker-compose.yml
    goaccess_conf,   \* 390-394: the domains with a goaccess/<domain>.conf
    ftp_users        \* 465-466: the lines of ftp/users.conf

site_vars == <<running, action, nginx, sites, certs, ssl_run, last_conf_call>>
backup_vars == <<backups, backup_file, backed_up>>

registry_vars == <<servers_yml, console>>
compose_vars == <<docker_compose, compose_yml, goaccess_conf, ftp_users>>
admin_vars == <<registry_vars, compose_vars>>

vars == <<site_vars, backup_vars, admin_vars>>

----------------------------------------------------------------------------
(* Bounds of the model *)

\* number of distinct base domain names the operator types in
NumDomains == 1

\* number of distinct seconds in which backups are taken
NumTimestamps == 1

\* number of numeric server hostnames the operator types in
NumServers == 2

\* number of lines ftp/users.conf grows to
MaxFtpUsers == 2

----------------------------------------------------------------------------
(* Domains.  A domain name is modelled by the site it names and the       *)
(* number of "staging." labels in front of it.                            *)

BaseDomains == [site : 1..NumDomains, staging : {0}]

\* f"staging.{domain}"
staging_domain(domain) == [domain EXCEPT !.staging = @ + 1]

\* the domain names the operator enters: base names and their staging names
AllDomains == BaseDomains \cup {staging_domain(d) : d \in BaseDomains}

NoDomain == [site |-> 0, staging |-> 0]

----------------------------------------------------------------------------
(* Site directory contents.  A file is its directory (relative to the     *)
(* site root), its name and its content.                                  *)

File(dir, name, lines, welcome) ==
    [dir |-> dir, name |-> name, lines |-> lines, welcome |-> welcome]

Line(directive, args) == [directive |-> directive, args |-> args]

\* f"<h1>Welcome to {domain}</h1>" written to index.html
index_html(domain) == File(<<>>, "index.html", <<>>, domain)

RuleFileName == ".rules"

\* Rewrite ^o$ /n r     (pattern, target, flag)
RewriteOld == Line("Rewrite", << <<"^", "o", "$">>, <<"/", "n">>, <<"r">> >>)
\* Rewrite ^x$          (a malformed line: pattern only)
RewriteShort == Line("Rewrite", << <<"^", "x", "$">> >>)
\* Rewrite ^d$ /e
RewriteDeep == Line("Rewrite", << <<"^", "d", "$">>, <<"/", "e">> >>)
\* Rewrite ^p$ /q
RewritePlain == Line("Rewrite", << <<"^", "p", "$">>, <<"/", "q">> >>)

\* what `git clone` can put into a site directory: a checkout with rule
\* files at the root, in a/ and in a/b/
GitTree ==
    { File(<<>>, ".git", <<>>, NoDomain),
      File(<<>>, RuleFileName, <<RewriteOld, RewriteShort>>, NoDomain),
      File(<<"a", "b">>, RuleFileName, <<RewriteDeep>>, NoDomain),
      File(<<"a">>, RuleFileName, <<RewritePlain>>, NoDomain) }

GitTrees == {GitTree}

TrackedPaths == {<<f.dir, f.name>> : f \in GitTree}

NoDir == [exists |-> FALSE, files |-> {}]
Dir(files) == [exists |-> TRUE, files |-> files]

\* open(path, 'w') of one file inside a directory tree: replaces that file
WriteInto(files, f) ==
    {g \in files : ~(g.dir = f.dir /\ g.name = f.name)} \cup {f}

----------------------------------------------------------------------------
(* create_nginx_conf: the configuration document *)

\* location / { try_files ... }   and   location ~ \.php$ { fastcgi_pass ... }
Locations ==
    << [match |-> <<"/">>,
        directive |-> "try_files $uri $uri/ /index.php?$args"],
       [match |-> <<"~", " ", "\\", ".", "p", "h", "p", "$">>,
        directive |-> "fastcgi_pass php8.0:9000"] >>

NoCert == [dir |-> "", domain |-> NoDomain, file |-> ""]
CertPath(domain, file) ==
    [dir |-> "/etc/letsencrypt/live", domain |-> domain, file |-> file]

ServerBlock(domain, listen, cert, key) ==
    [ listen |-> listen,
      server_name |-> [name |-> domain, www |-> domain],
      root |-> domain,
      index |-> <<"index.php", "index.html", "index.htm">>,
      ssl_certificate |-> cert,
      ssl_certificate_key |-> key,
      locations |-> Locations ]

\* the `if ssl:` test dropped: the 443 block is appended whatever the flag
conf_content_always_tls(domain, ssl) ==
    <<ServerBlock(domain, "80", NoCert, NoCert),
      ServerBlock(domain, "443 ssl http2",
                  CertPath(domain, "fullchain.pem"),
                  CertPath(domain, "privkey.pem"))>>

conf_content(domain, ssl) ==
    <<ServerBlock(domain, "80", NoCert, NoCert)>>
    \o (IF ssl
        THEN <<ServerBlock(domain, "443 ssl http2",
                           CertPath(domain, "fullchain.pem"),
                           CertPath(domain, "privkey.pem"))>>
        ELSE <<>>)

\* the file opened with 'a' instead of 'w': the document is appended to the old one
WriteFile_append(dir, name, content) == [dir EXCEPT ![name] = @ \o content]

\* with open(conf_path, 'w') as f: f.write(conf_content)
WriteFile(dir, name, content) == [dir EXCEPT ![name] = content]

create_nginx_conf(dir, domain, ssl) ==
    WriteFile(dir, domain, conf_content(domain, ssl))

ConfCall(domain, ssl) == [domain |-> domain, ssl |-> ssl]
NoCall == [domain |-> NoDomain, ssl |-> FALSE]

----------------------------------------------------------------------------
(* setup_ssl: a placeholder that prints a notice and returns.  It          *)
(* generates no token, makes no DNS lookup, installs no signal handler and *)
(* stores no certificate.                                                  *)

setup_ssl(domain) ==
    [ domain |-> domain,
      state |-> "Init",
      dns_attempts |-> 0,
      issued |-> FALSE,
      console |-> "SSL setup is not implemented in this version." ]

NoRun ==
    [ domain |-> NoDomain, state |-> "Init", dns_attempts |-> 0,
      issued |-> FALSE, console |-> "" ]

\* certificate files a setup_ssl run leaves under certs/
CertsAfter(cs, run) == IF run.issued THEN cs \cup {run.domain} ELSE cs

----------------------------------------------------------------------------
(* Backup archives *)

\* f"{domain}_{timestamp}.tar.gz"
BackupFileName(domain, timestamp) == <<domain, timestamp>>
BackupFiles == {BackupFileName(d, t) : d \in AllDomains, t \in 1..NumTimestamps}
NoBackupFile == BackupFileName(NoDomain, 0)

NoArchive == [exists |-> FALSE, arcname |-> NoDomain, files |-> {}]
\* an archive without members: tar.add raised before it added anything
EmptyArchive == [exists |-> TRUE, arcname |-> NoDomain, files |-> {}]
\* tar.add(site_dir, arcname=domain)
Archive(domain, site) == [exists |-> TRUE, arcname |-> domain, files |-> site.files]

\* shutil.rmtree skipped: the old directory stays
rmtree_skipped(ss, domain) == ss

\* if os.path.exists(site_dir): shutil.rmtree(site_dir)
rmtree(ss, domain) == [ss EXCEPT ![domain] = NoDir]

\* files written over a directory: same path replaces, other files stay
MergeFiles(old, new) ==
    {g \in old : ~\E f \in new : f.dir = g.dir /\ f.name = g.name} \cup new

\* tar.extractall(path=sites/): the members go to sites/<arcname>
extractall(ss, archive) ==
    IF archive.arcname = NoDomain THEN ss
    ELSE [ss EXCEPT ![archive.arcname] = Dir(MergeFiles(@.files, archive.files))]

----------------------------------------------------------------------------
(* Python values and YAML documents.  A dict is a set of items [key,       *)
(* value] with distinct keys; a YAML mapping is the set of its entries     *)
(* (yaml.dump sorts the keys, so the text is determined by that set).      *)

PyStr(text) == [type |-> "str", text |-> text]
PyInt(text) == [type |-> "int", text |-> text]

Keys(dict) == {e.key : e \in dict}
\* k in dict
HasKey(dict, k) == k \in Keys(dict)
\* dict[k] = v
SetItem(dict, k, v) == {e \in dict : e.key # k} \cup {[key |-> k, value |-> v]}
\* del dict[k]
DelItem(dict, k) == {e \in dict : e.key # k}

\* the plain scalars that YAML's implicit resolver reads as integers
IntLiterals == {ToString(i) : i \in 1..NumServers}

\* the value a plain (unquoted) scalar is read as
Resolve(text) == IF text \in IntLiterals THEN PyInt(text) ELSE PyStr(text)

\* every scalar written plain
Scalar_plain(v) == [quoted |-> FALSE, text |-> v.text]

\* yaml.dump of a scalar: a str that would be read back as another type is
\* written in quotes
Scalar(v) == [quoted |-> v.type = "str" /\ Resolve(v.text).type # "str", text |-> v.text]

\* yaml.safe_load of a scalar
construct(s) == IF s.quoted THEN PyStr(s.text) ELSE Resolve(s.text)

NoFile == [exists |-> FALSE, text |-> {}]
\* with open(path, 'w') as f: f.write(text)
Written(text) == [exists |-> TRUE, text |-> text]

----------------------------------------------------------------------------
(* The server registry, servers.yml *)

\* what the operator answers to 'Enter the server hostname'
Hostnames == {"web"} \cup {ToString(i) : i \in 1..NumServers}
IpAddresses == {"10.0.0.1", "10.0.0.2"}
SshKeyPaths == {"~/.ssh/id_rsa"}

\* {'ip_address': ip_address, 'ssh_key_path': ssh_key_path}
ServerDetails(ip_address, ssh_key_path) ==
    [ip_address |-> PyStr(ip_address), ssh_key_path |-> PyStr(ssh_key_path)]
represent_details(v) ==
    [ip_address |-> Scalar(v.ip_address), ssh_key_path |-> Scalar(v.ssh_key_path)]
construct_details(v) ==
    [ip_address |-> construct(v.ip_address), ssh_key_path |-> construct(v.ssh_key_path)]

\* yaml.dump(servers, f)
yaml_dump(servers) ==
    {[key |-> Scalar(e.key), value |-> represent_details(e.value)] : e \in servers}

\* yaml.safe_load(f)
yaml_safe_load(text) ==
    {[key |-> construct(l.key), value |-> construct_details(l.value)] : l \in text}

Message(text, hostname) == [text |-> text, hostname |-> hostname]
NoMessage == Message("", "")

\* add_server(hostname, ip_address, ssh_key_path) on the file `file`
add_server(file, hostname, ip_address, ssh_key_path) ==
    LET servers == IF file.exists
                   THEN yaml_safe_load(file.text)
                   ELSE {}
    IN  [file |-> Written(yaml_dump(SetItem(servers, PyStr(hostname),
                                            ServerDetails(ip_address, ssh_key_path)))),
         console |-> Message("added successfully", hostname)]

\* remove_server(hostname) on the file `file`
remove_server(file, hostname) ==
    IF file.exists
    THEN LET servers == yaml_safe_load(file.text)
         IN  IF HasKey(servers, PyStr(hostname))
             THEN [file |-> Written(yaml_dump(DelItem(servers, PyStr(hostname)))),
                   console |-> Message("removed successfully", hostname)]
             ELSE [file |-> file, console |-> Message("not found", hostname)]
    ELSE [file |-> file, console |-> Message("No servers configured", "")]

----------------------------------------------------------------------------
(* docker_compose['services'] and docker-compose.yml *)

Service(image, depends_on, domain) ==
    [image |-> image, depends_on |-> depends_on, domain |-> domain]

\* php_versions, without the last version
php_versions_short == {"7.4", "8.0", "8.1", "8.2"}

\* php_versions = ['7.4', '8.0', '8.1', '8.2', '8.3']
php_versions == {"7.4", "8.0", "8.1", "8.2", "8.3"}

\* 'depends_on': ['php7.4', 'php8.0', 'php8.1', 'php8.2', 'php8.3']
nginx_depends_on == {"php7.4", "php8.0", "php8.1", "php8.2", "php8.3"}

\* docker_compose = {'version': '3', 'services': {'nginx': {...}}}
nginx_service == Service("nginx:latest", nginx_depends_on, NoDomain)

\* setup_php_containers(): docker_compose['services'][f'php{version}'] = {...}
setup_php_containers(services) ==
    {e \in services : e.key \notin {PyStr("php" \o v) : v \in php_versions}} \cup
    {[key |-> PyStr("php" \o v), value |-> Service("Dockerfile-php" \o v, {}, NoDomain)] :
        v \in php_versions}

\* setup_monitoring(): the prometheus and grafana services
setup_monitoring(services) ==
    SetItem(SetItem(services, PyStr("prometheus"), Service("prom/prometheus", {}, NoDomain)),
            PyStr("grafana"), Service("grafana/grafana", {}, NoDomain))

\* setup_goaccess(domain): docker_compose['services']['goaccess'] = {...}
setup_goaccess(services, domain) ==
    SetItem(services, PyStr("goaccess"), Service("allinurl/goaccess", {}, domain))

\* setup_ftp_access: if 'ftp' not in docker_compose['services']: ...
setup_ftp_access(services) ==
    IF ~HasKey(services, PyStr("ftp"))
    THEN SetItem(services, PyStr("ftp"), Service("bogem/ftp", {}, NoDomain))
    ELSE services

\* setup_redis(): docker_compose['services']['redis'] = {...}
setup_redis(services) ==
    SetItem(services, PyStr("redis"), Service("redis:alpine", {}, NoDomain))

\* setup(): docker_compose as it is when yaml.dump writes it
setup ==
    setup_monitoring(setup_php_containers({[key |-> PyStr("nginx"), value |-> nginx_service]}))

\* with open('docker-compose.yml', 'w') as f: yaml.dump(docker_compose, f);
\* the service definitions are carried as they are
DumpCompose(services) ==
    Written({[key |-> Scalar(e.key), value |-> e.value] : e \in services})

FtpUsernames == {"admin", "deploy"}

----------------------------------------------------------------------------
Init ==
    /\ running = TRUE
    /\ action = ""
    /\ nginx = [d \in AllDomains |-> <<>>]
    /\ sites = [d \in AllDomains |-> NoDir]
    /\ certs = {}
    /\ ssl_run = NoRun
    /\ last_conf_call = NoCall
    /\ backups = [f \in BackupFiles |-> NoArchive]
    /\ backup_file = NoBackupFile
    /\ backed_up = [f \in BackupFiles |-> NoDir]
    /\ servers_yml = NoFile
    /\ console = NoMessage
    /\ docker_compose = setup
    /\ compose_yml = DumpCompose(setup)
    /\ goaccess_conf = {}
    /\ ftp_users = <<>>

\* os.makedirs(site_dir, exist_ok=True)
makedirs(site) == IF site.exists THEN site ELSE Dir({})

\* git clone <git> <site_dir>: succeeds only into an empty directory; the
\* exit status is ignored
CloneResults(site) ==
    {site} \cup (IF site.files = {} THEN {Dir(t) : t \in GitTrees} ELSE {})

\* git -C <site_dir> pull: only a checkout can change, to some revision
PullResults(site) ==
    {site} \cup
    (IF site.exists /\ \E f \in site.files : f.name = ".git"
     THEN {Dir({f \in site.files : <<f.dir, f.name>> \notin TrackedPaths} \cup t) :
             t \in GitTrees}
     ELSE {})

\* create(domain, git, skip_ssl)
Create(domain, git, skip_ssl) ==
    /\ running
    /\ action' = "Create website"
    /\ \E site \in (IF git
                    THEN CloneResults(makedirs(sites[domain]))
                    ELSE {Dir(WriteInto(makedirs(sites[domain]).files,
                                        index_html(domain)))}) :
          sites' = [sites EXCEPT ![domain] = site]
    /\ nginx' = create_nginx_conf(nginx, domain, ~skip_ssl)
    /\ last_conf_call' = ConfCall(domain, ~skip_ssl)
    /\ ssl_run' = IF skip_ssl THEN NoRun ELSE setup_ssl(domain)
    /\ certs' = IF skip_ssl THEN certs ELSE CertsAfter(certs, setup_ssl(domain))
    /\ UNCHANGED <<running, backup_vars, admin_vars>>

\* rebuild(domain, ...) applied to the configuration files
rebuild(dir, domain) == create_nginx_conf(dir, domain, TRUE)

\* rebuild(domain, git, reconfigure_ssl)
Rebuild(domain, git, reconfigure_ssl) ==
    /\ running
    /\ action' = "Rebuild website"
    /\ \E site \in (IF git THEN PullResults(sites[domain]) ELSE {sites[domain]}) :
          sites' = [sites EXCEPT ![domain] = site]
    /\ ssl_run' = IF reconfigure_ssl THEN setup_ssl(domain) ELSE NoRun
    /\ certs' = IF reconfigure_ssl THEN CertsAfter(certs, setup_ssl(domain)) ELSE certs
    /\ nginx' = rebuild(nginx, domain)
    /\ last_conf_call' = ConfCall(domain, TRUE)
    /\ UNCHANGED <<running, backup_vars, admin_vars>>

\* create_staging_environment(domain)
CreateStagingEnvironment(domain) ==
    /\ running
    /\ action' = "Create staging environment"
    /\ ssl_run' = NoRun
    /\ UNCHANGED <<backup_vars, admin_vars>>
    /\ IF sites[domain].exists /\ ~sites[staging_domain(domain)].exists
       THEN /\ sites' = [sites EXCEPT ![staging_domain(domain)] = sites[domain]]
            /\ nginx' = rebuild(create_nginx_conf(nginx, staging_domain(domain), FALSE),
                                staging_domain(domain))
            /\ last_conf_call' = ConfCall(staging_domain(domain), TRUE)
            /\ UNCHANGED <<running, certs>>
       ELSE \* shutil.copytree raises; nothing catches it
            /\ running' = FALSE
            /\ UNCHANGED <<nginx, sites, certs, last_conf_call>>

\* promote_staging_to_production(domain)
PromoteStagingToProduction(domain) ==
    /\ running
    /\ action' = "Promote staging to production"
    /\ ssl_run' = NoRun
    /\ UNCHANGED <<backup_vars, admin_vars>>
    /\ IF ~sites[domain].exists
       THEN \* shutil.rmtree(site_dir) raises
            /\ running' = FALSE
            /\ UNCHANGED <<nginx, sites, certs, last_conf_call>>
       ELSE IF ~sites[staging_domain(domain)].exists
       THEN \* site_dir is gone, then shutil.move raises
            /\ running' = FALSE
            /\ sites' = [sites EXCEPT ![domain] = NoDir]
            /\ UNCHANGED <<nginx, certs, last_conf_call>>
       ELSE /\ sites' = [sites EXCEPT ![domain] = sites[staging_domain(domain)],
                                      ![staging_domain(domain)] = NoDir]
            /\ nginx' = rebuild(nginx, domain)
            /\ last_conf_call' = ConfCall(domain, TRUE)
            /\ UNCHANGED <<running, certs>>

\* the 'Exit' choice of the menu
Exit ==
    /\ running
    /\ action' = "Exit"
    /\ running' = FALSE
    /\ ssl_run' = NoRun
    /\ UNCHANGED <<backup_vars, admin_vars>>
    /\ UNCHANGED <<nginx, sites, certs, last_conf_call>>

\* backup_website(domain), run in the second `timestamp`
BackupWebsite(domain, timestamp) ==
    /\ running
    /\ action' = "Backup website"
    /\ ssl_run' = NoRun
    /\ IF sites[domain].exists
       THEN /\ backups' = [backups EXCEPT ![BackupFileName(domain, timestamp)] =
                                              Archive(domain, sites[domain])]
            /\ backed_up' = [backed_up EXCEPT ![BackupFileName(domain, timestamp)] =
                                                  sites[domain]]
            /\ UNCHANGED running
       ELSE \* the archive is created, then tar.add raises
            /\ backups' = [backups EXCEPT ![BackupFileName(domain, timestamp)] =
                                              EmptyArchive]
            /\ backed_up' = [backed_up EXCEPT ![BackupFileName(domain, timestamp)] =
                                                  NoDir]
            /\ running' = FALSE
    /\ UNCHANGED <<nginx, sites, certs, last_conf_call, backup_file>>
    /\ UNCHANGED admin_vars

\* restore_website(backup_file, domain)
RestoreWebsite(file, domain) ==
    /\ running
    /\ action' = "Restore website"
    /\ ssl_run' = NoRun
    /\ backup_file' = file
    /\ IF backups[file].exists
       THEN /\ sites' = extractall(rmtree(sites, domain), backups[file])
            /\ nginx' = rebuild(nginx, domain)
            /\ last_conf_call' = ConfCall(domain, TRUE)
            /\ UNCHANGED running
       ELSE \* site_dir is gone, then tarfile.open raises
            /\ sites' = rmtree(sites, domain)
            /\ running' = FALSE
            /\ UNCHANGED <<nginx, last_conf_call>>
    /\ UNCHANGED <<certs, backups, backed_up>>
    /\ UNCHANGED admin_vars

\* the 'Add server' choice: add_server(hostname, ip_address, ssh_key_path)
AddServer(hostname, ip_address, ssh_key_path) ==
    /\ running
    /\ action' = "Add server"
    /\ ssl_run' = NoRun
    /\ servers_yml' = add_server(servers_yml, hostname, ip_address, ssh_key_path).file
    /\ console' = add_server(servers_yml, hostname, ip_address, ssh_key_path).console
    /\ UNCHANGED <<running, nginx, sites, certs, last_conf_call>>
    /\ UNCHANGED <<backup_vars, compose_vars>>

\* the 'Remove server' choice: remove_server(hostname)
RemoveServer(hostname) ==
    /\ running
    /\ action' = "Remove server"
    /\ ssl_run' = NoRun
    /\ servers_yml' = remove_server(servers_yml, hostname).file
    /\ console' = remove_server(servers_yml, hostname).console
    /\ UNCHANGED <<running, nginx, sites, certs, last_conf_call>>
    /\ UNCHANGED <<backup_vars, compose_vars>>

\* the 'Setup website statistics' choice: setup_goaccess(domain)
SetupGoaccess(domain) ==
    /\ running
    /\ action' = "Setup website statistics"
    /\ ssl_run' = NoRun
    /\ goaccess_conf' = goaccess_conf \cup {domain}
    /\ docker_compose' = setup_goaccess(docker_compose, domain)
    /\ compose_yml' = DumpCompose(docker_compose')
    /\ nginx' = rebuild(nginx, domain)
    /\ last_conf_call' = ConfCall(domain, TRUE)
    /\ UNCHANGED <<running, sites, certs, ftp_users>>
    /\ UNCHANGED <<backup_vars, registry_vars>>

\* the 'Setup FTP access' choice: setup_ftp_access(domain, username, password)
SetupFtpAccess(domain, username) ==
    /\ running
    /\ Len(ftp_users) < MaxFtpUsers
    /\ action' = "Setup FTP access"
    /\ ssl_run' = NoRun
    /\ ftp_users' = Append(ftp_users, [username |-> username, domain |-> domain])
    /\ docker_compose' = setup_ftp_access(docker_compose)
    /\ compose_yml' = DumpCompose(docker_compose')
    /\ nginx' = rebuild(nginx, domain)
    /\ last_conf_call' = ConfCall(domain, TRUE)
    /\ UNCHANGED <<running, sites, certs, goaccess_conf>>
    /\ UNCHANGED <<backup_vars, registry_vars>>

\* the 'Setup Redis' choice: setup_redis()
SetupRedis ==
    /\ running
    /\ action' = "Setup Redis"
    /\ ssl_run' = NoRun
    /\ docker_compose' = setup_redis(docker_compose)
    /\ compose_yml' = DumpCompose(docker_compose')
    /\ UNCHANGED <<running, nginx, sites, certs, last_conf_call>>
    /\ UNCHANGED <<goaccess_conf, ftp_users>>
    /\ UNCHANGED <<backup_vars, registry_vars>>

\* the 'Setup monitoring' choice: setup_monitoring(), which writes no
\* docker-compose.yml
SetupMonitoring ==
    /\ running
    /\ action' = "Setup monitoring"
    /\ ssl_run' = NoRun
    /\ docker_compose' = setup_monitoring(docker_compose)
    /\ UNCHANGED <<running, nginx, sites, certs, last_conf_call>>
    /\ UNCHANGED <<compose_yml, goaccess_conf, ftp_users>>
    /\ UNCHANGED <<backup_vars, registry_vars>>

Next ==
    \/ \E d \in BaseDomains, git \in BOOLEAN, skip_ssl \in BOOLEAN : Create(d, git, skip_ssl)
    \/ \E d \in AllDomains, git \in BOOLEAN, re \in BOOLEAN : Rebuild(d, git, re)
    \/ \E d \in BaseDomains : CreateStagingEnvironment(d)
    \/ \E d \in BaseDomains : PromoteStagingToProduction(d)
    \/ Exit

Spec == Init /\ [][Next]_vars

\* the operations that change a site directory, and its backups
BackupNext ==
    \/ \E d \in BaseDomains, git \in BOOLEAN : Create(d, git, TRUE)
    \/ \E d \in BaseDomains : Rebuild(d, TRUE, FALSE)
    \/ \E d \in BaseDomains, t \in 1..NumTimestamps : BackupWebsite(d, t)
    \/ \E f \in {g \in BackupFiles : g[1] \in BaseDomains}, d \in BaseDomains :
          RestoreWebsite(f, d)
    \/ Exit

SpecBackup == Init /\ [][BackupNext]_vars

\* the operations on the server registry
ServersNext ==
    \/ \E h \in Hostnames, ip \in IpAddresses, key \in SshKeyPaths : AddServer(h, ip, key)
    \/ \E h \in Hostnames : RemoveServer(h)

SpecServers == Init /\ [][ServersNext]_vars

\* the operations on docker_compose, after setup()
ComposeNext ==
    \/ \E d \in AllDomains : SetupGoaccess(d)
    \/ \E d \in AllDomains, u \in FtpUsernames : SetupFtpAccess(d, u)
    \/ SetupRedis
    \/ SetupMonitoring
    \/ Exit

SpecCompose == Init /\ [][ComposeNext]_vars

----------------------------------------------------------------------------
(* Reading a configuration document *)

\* a TLS stanza: a server block that listens on 443 or names certificate files
IsTlsStanza(block) ==
    \/ block.listen = "443 ssl http2"
    \/ block.ssl_certificate # NoCert
    \/ block.ssl_certificate_key # NoCert

HasTlsStanza(doc) == \E i \in DOMAIN doc : IsTlsStanza(doc[i])

\* a certificate workflow that ended: the three terminal states
TerminalStates == {"Issued", "IssuanceFailed", "TimedOutNoRecord"}

\* the states a workflow is in once a lookup has matched the token
MatchedStates == {"Verified", "Issuing", "Issued", "IssuanceFailed"}

----------------------------------------------------------------------------
(* C1: a stored configuration is TLS-enabled only if the certificate      *)
(* workflow issued a certificate for that domain (the challenge reached   *)
(* Verified and issuance succeeded, which stores the domain's             *)
(* certificate files).                                                     *)
C1_TlsOnlyAfterIssuance ==
    \A d \in AllDomains : HasTlsStanza(nginx[d]) => d \in certs

(* C2: the document written by create_nginx_conf(domain, ssl) holds a TLS *)
(* stanza iff ssl is true, and every TLS stanza of a stored document      *)
(* names the certificate and key files of the domain it is stored for.    *)
C2_TlsStanzaIffFlag ==
    /\ last_conf_call # NoCall =>
          (HasTlsStanza(nginx[last_conf_call.domain]) <=> last_conf_call.ssl)
    /\ \A d \in AllDomains : \A i \in DOMAIN nginx[d] :
          IsTlsStanza(nginx[d][i]) =>
             /\ nginx[d][i].listen = "443 ssl http2"
             /\ nginx[d][i].ssl_certificate = CertPath(d, "fullchain.pem")
             /\ nginx[d][i].ssl_certificate_key = CertPath(d, "privkey.pem")

\* both cases at once: the last call wrote a document without TLS while
\* another domain's stored document has the TLS stanza
C2_Witness ==
    /\ last_conf_call # NoCall
    /\ ~last_conf_call.ssl
    /\ nginx[last_conf_call.domain] # <<>>
    /\ ~HasTlsStanza(nginx[last_conf_call.domain])
    /\ \E d \in AllDomains : HasTlsStanza(nginx[d])

(* C3: when create(domain, skip_ssl=False) has returned, the certificate  *)
(* workflow it ran ended in Issued, IssuanceFailed or TimedOutNoRecord,   *)
(* and unless it ended in Issued the domain's configuration is the        *)
(* TLS-disabled one.                                                       *)
C3_CreateLeavesWorkingSite ==
    (action = "Create website" /\ ssl_run # NoRun) =>
        /\ ssl_run.state \in TerminalStates
        /\ ssl_run.state # "Issued" => ~HasTlsStanza(nginx[ssl_run.domain])

(* C5: when a certificate workflow has run and no lookup matched the      *)
(* token, it made exactly 10 lookups, ended in TimedOutNoRecord, and the  *)
(* domain's configuration has TLS disabled.                               *)
C5_NoMatchTimesOutWithoutTls ==
    (ssl_run # NoRun /\ ssl_run.state \notin MatchedStates) =>
        /\ ssl_run.dns_attempts = 10
        /\ ssl_run.state = "TimedOutNoRecord"
        /\ ~HasTlsStanza(nginx[ssl_run.domain])

----------------------------------------------------------------------------
(* Reading rule files and location blocks *)

RuleFiles(site) == {f \in site.files : f.name = RuleFileName}

\* a pattern with its leading ^ and trailing $ removed
StripLeading(p) == IF Len(p) > 0 /\ p[1] = "^" THEN Tail(p) ELSE p
StripTrailing(p) ==
    IF Len(p) > 0 /\ p[Len(p)] = "$" THEN SubSeq(p, 1, Len(p) - 1) ELSE p
StripAnchors(p) == StripTrailing(StripLeading(p))

\* the location entries of a server block whose source is src
EntriesFor(block, src) ==
    {j \in DOMAIN block.locations : block.locations[j].match = src}

RECURSIVE PathOf(_)
PathOf(dir) == IF dir = <<>> THEN <<>> ELSE <<"/", Head(dir)>> \o PathOf(Tail(dir))

\* the URL prefix of a rule file's directory; the site root maps to "/"
UrlPrefix(dir) == IF dir = <<>> THEN <<"/">> ELSE PathOf(dir)

IsProperPrefix(p, q) == Len(p) < Len(q) /\ SubSeq(q, 1, Len(p)) = p

\* directory-scoped locations and their depth
IsPrefixLocation(loc) == Len(loc.match) > 0 /\ loc.match[1] = "/"
Depth(m) == IF m = <<"/">> THEN 0 ELSE Cardinality({x \in DOMAIN m : m[x] = "/"})

Alphabet == <<"/", "a", "b", "d", "e", "n", "o", "p", "q", "x">>
Rank(c) == CHOOSE r \in DOMAIN Alphabet : Alphabet[r] = c
RECURSIVE LexLeq(_, _)
LexLeq(m, n) ==
    IF m = <<>> THEN TRUE
    ELSE IF n = <<>> THEN FALSE
    ELSE IF Head(m) = Head(n) THEN LexLeq(Tail(m), Tail(n))
    ELSE Rank(Head(m)) < Rank(Head(n))

(* C8: for every Rewrite line of a rule file of a configured site, each   *)
(* server block of the site's configuration holds exactly one entry whose *)
(* source is the anchor-stripped pattern when the line has at least two   *)
(* tokens, and none when it has fewer.                                     *)
C8_RewriteLinesTranslated ==
    \A d \in AllDomains : nginx[d] # <<>> =>
       \A f \in RuleFiles(sites[d]) : \A k \in DOMAIN f.lines :
          (f.lines[k].directive = "Rewrite" /\ Len(f.lines[k].args) >= 1) =>
             \A i \in DOMAIN nginx[d] :
                Cardinality(EntriesFor(nginx[d][i], StripAnchors(f.lines[k].args[1])))
                   = IF Len(f.lines[k].args) >= 2 THEN 1 ELSE 0

(* C9: in every server block of a configured site the directory-scoped    *)
(* location blocks are in ascending depth and, within a depth, in lexical *)
(* order; and for rule-file directories p and q with p an ancestor of q,  *)
(* the block of p is emitted before the block of q.                       *)
C9_LocationBlocksOrdered ==
    \A d \in AllDomains : \A i \in DOMAIN nginx[d] :
       LET locs == nginx[d][i].locations IN
       /\ \A j, k \in DOMAIN locs :
             (j < k /\ IsPrefixLocation(locs[j]) /\ IsPrefixLocation(locs[k])) =>
                \/ Depth(locs[j].match) < Depth(locs[k].match)
                \/ /\ Depth(locs[j].match) = Depth(locs[k].match)
                   /\ LexLeq(locs[j].match, locs[k].match)
       /\ \A f, g \in RuleFiles(sites[d]) :
             IsProperPrefix(f.dir, g.dir) =>
                \E j, k \in DOMAIN locs :
                   /\ j < k
                   /\ locs[j].match = UrlPrefix(f.dir)
                   /\ locs[k].match = UrlPrefix(g.dir)

(* C10: every step that calls create_nginx_conf(domain, ssl) leaves, as   *)
(* the domain's stored document, exactly the document of (domain, ssl),   *)
(* whatever was stored before, and leaves the documents of all other      *)
(* domains as they were.                                                   *)
C10_ConfReplacedInFull ==
    [][ last_conf_call' # NoCall =>
          /\ nginx'[last_conf_call'.domain] =
                conf_content(last_conf_call'.domain, last_conf_call'.ssl)
          /\ \A d \in AllDomains \ {last_conf_call'.domain} : nginx'[d] = nginx[d]
      ]_vars

\* create_staging_environment returned: it wrote the staging document twice
\* (ssl=False, then ssl=True through rebuild) next to the production one
C10_Witness ==
    /\ running
    /\ action = "Create staging environment"
    /\ nginx[last_conf_call.domain] = conf_content(last_conf_call.domain, TRUE)
    /\ \E d \in AllDomains \ {last_conf_call.domain} : nginx[d] # <<>>

----------------------------------------------------------------------------
(* Fixed sections of a server block *)

\* the directive a location of the generated document holds
DirectiveName(text) ==
    CASE text = "try_files $uri $uri/ /index.php?$args" -> "try_files"
      [] text = "fastcgi_pass php8.0:9000" -> "fastcgi_pass"
      [] OTHER -> "other"

HasLocation(block, name) ==
    \E j \in DOMAIN block.locations :
        DirectiveName(block.locations[j].directive) = name

(* C11: every server block of every stored configuration holds the whole  *)
(* fixed preamble: listen, server name with the domain and its www alias, *)
(* document root, index list, try-files fallback, extension-stripping     *)
(* redirect, PHP routing, denial of the rule files and the error-page     *)
(* mapping.                                                                *)
C11_FixedPreamblePresent ==
    \A d \in AllDomains : \A i \in DOMAIN nginx[d] :
       LET block == nginx[d][i] IN
       /\ block.listen # ""
       /\ block.server_name = [name |-> d, www |-> d]
       /\ block.root = d
       /\ block.index # <<>>
       /\ HasLocation(block, "try_files")
       /\ HasLocation(block, "fastcgi_pass")
       /\ HasLocation(block, "rewrite")
       /\ HasLocation(block, "deny")
       /\ "error_page" \in DOMAIN block

\* the rule files of a checkout that cannot be opened
UnreadableDirs == {<<"a">>}

(* C12: every existing site has a configuration; with no rule file it is  *)
(* the fixed boilerplate only; and when a rule file is unreadable, the    *)
(* valid Rewrite lines of the readable ones are still translated.         *)
C12_TranslationAlwaysCompletes ==
    \A d \in AllDomains : (running /\ sites[d].exists) =>
       /\ nginx[d] # <<>>
       /\ RuleFiles(sites[d]) = {} =>
             \A i \in DOMAIN nginx[d] : nginx[d][i].locations = Locations
       /\ (\E u \in RuleFiles(sites[d]) : u.dir \in UnreadableDirs) =>
             \A f \in RuleFiles(sites[d]) : \A k \in DOMAIN f.lines :
                (/\ f.dir \notin UnreadableDirs
                 /\ f.lines[k].directive = "Rewrite"
                 /\ Len(f.lines[k].args) >= 2) =>
                   \A i \in DOMAIN nginx[d] :
                      EntriesFor(nginx[d][i], StripAnchors(f.lines[k].args[1])) # {}

(* C13: when create_staging_environment has returned, the document stored *)
(* for the staging domain is the TLS-disabled one it wrote with ssl=False.*)
C13_StagingConfWithoutTls ==
    (running /\ action = "Create staging environment") =>
        /\ ~HasTlsStanza(nginx[last_conf_call.domain])
        /\ nginx[last_conf_call.domain] = conf_content(last_conf_call.domain, FALSE)

----------------------------------------------------------------------------
----------------------------------------------------------------------------
(* Reading the server registry *)

\* the entries of the registry: what list_servers reads from servers.yml
Registry(file) ==
    IF file.exists THEN yaml_safe_load(file.text) ELSE {}

\* `hostname in servers`, as the operator typed the hostname
Registered(file, hostname) == HasKey(Registry(file), PyStr(hostname))

(* C15: on every registry file the program produces, remove_server of a   *)
(* hostname leaves the file as it is and prints 'No servers configured'    *)
(* when there is no file, and 'not found' when the hostname is not         *)
(* registered; for a registered hostname it removes exactly that entry     *)
(* and leaves the others as they are; and add_server of a hostname that    *)
(* is not registered, followed by remove_server of it, gives back the      *)
(* entries there were.                                                     *)
C15_RemoveServerExact ==
    \A h \in Hostnames :
        LET removed == remove_server(servers_yml, h)
        IN  /\ ~servers_yml.exists =>
                /\ removed.file = servers_yml
                /\ removed.console = Message("No servers configured", "")
            /\ (servers_yml.exists /\ ~Registered(servers_yml, h)) =>
                /\ removed.file = servers_yml
                /\ removed.console = Message("not found", h)
            /\ Registered(servers_yml, h) =>
                /\ Registry(removed.file) =
                       {e \in Registry(servers_yml) : e.key # PyStr(h)}
                /\ removed.console = Message("removed successfully", h)
            /\ ~Registered(servers_yml, h) =>
                \A ip \in IpAddresses, key \in SshKeyPaths :
                    LET added == add_server(servers_yml, h, ip, key)
                    IN  /\ Registered(added.file, h)
                        /\ Registry(remove_server(added.file, h).file) =
                               Registry(servers_yml)

\* remove_server has just removed a numeric hostname from a registry that
\* keeps another entry
C15_Witness ==
    /\ action = "Remove server"
    /\ console.text = "removed successfully"
    /\ console.hostname \in IntLiterals
    /\ ~Registered(servers_yml, console.hostname)
    /\ Registry(servers_yml) # {}

----------------------------------------------------------------------------
(* Reading docker-compose.yml *)

\* the services mapping read from the file
LoadCompose(file) == {[key |-> construct(l.key), value |-> l.value] : l \in file.text}

\* the service names under 'services:' in the file
ServicesIn(file) == Keys(LoadCompose(file))

\* how many definitions of the service `name` a mapping holds
Definitions(mapping, name) == Cardinality({e \in mapping : e.key = name})

\* the file and docker_compose name the same services, every depends_on
\* entry names a defined service, and ftp is defined once as soon as
\* setup_ftp_access has run (and not before)
ComposeConsistent ==
    /\ compose_yml.exists
    /\ ServicesIn(compose_yml) = Keys(docker_compose)
    /\ \A e \in docker_compose : \A s \in e.value.depends_on :
          /\ HasKey(docker_compose, PyStr(s))
          /\ PyStr(s) \in ServicesIn(compose_yml)
    /\ \E e \in docker_compose : e.key = PyStr("nginx") /\ e.value.depends_on # {}
    /\ Definitions(docker_compose, PyStr("ftp")) = (IF ftp_users = <<>> THEN 0 ELSE 1)
    /\ Definitions(LoadCompose(compose_yml), PyStr("ftp")) =
           (IF ftp_users = <<>> THEN 0 ELSE 1)

\* a step removes no service
ServicesOnlyAdded ==
    /\ Keys(docker_compose) \subseteq Keys(docker_compose')
    /\ ServicesIn(compose_yml) \subseteq ServicesIn(compose_yml')

(* C16: after setup() and after every later menu action, docker-compose.yml *)
(* names exactly the services of docker_compose, no action removes a        *)
(* service, so each service in nginx's depends_on stays defined, and        *)
(* however often setup_ftp_access runs, ftp is defined exactly once.        *)
C16_ComposeFileMatchesMemory ==
    []ComposeConsistent /\ [][ServicesOnlyAdded]_vars

\* setup_monitoring has run again after statistics, redis and two FTP
\* accounts were set up
C16_Witness ==
    /\ action = "Setup monitoring"
    /\ Len(ftp_users) >= 2
    /\ HasKey(docker_compose, PyStr("redis"))
    /\ HasKey(docker_compose, PyStr("goaccess"))
    /\ HasKey(docker_compose, PyStr("ftp"))

====
